---- MODULE Spec2Model ----
\* A model of the shade-aware walking-route finder (frontend/src/App.tsx) and
\* of its backend (the express handlers of /api/config and /api/geocode).
\*
\* Fixed-point conventions (TLC has integers only):
\*   - shade scores are in hundredths of a percent (9500 = 95);
\*   - angles handed to Sin100 are in hundredths of a radian, its result is in
\*     hundredths (100 = 1.0);
\*   - the first point of a route geometry is in hundredths of a degree;
\*   - start, end and waypoints are [lat, lng] in micro-degrees (5000 = 0.005);
\*   - the sun azimuth is in quarter degrees (720 = 180 degrees);
\*   - distances are metres, durations seconds.
EXTENDS Integers, Sequences, FiniteSets, TLC

VARIABLES
    \* ---- the UI controller (App) ----
    mapInit,            \* "pending" | "done": initializeMap has finished
    orsApiKey,          \* orsApiKeyRef.current is a non-empty string
    shadeMap,           \* shadeMapRef.current is set
    minutesOfDay,       \* the time slider
    routeType,          \* "fastest" | "shadiest"
    allRoutes,          \* the scored candidate list
    currentRoute,       \* the displayed candidate, or Null
    routeLayer,         \* the geometry drawn on the map (routeLayerRef), or Null
    markers,            \* [start, end] shown by the two markers, or Null
    isCalculatingRoute, \* disables the directions button
    alerts,             \* the alert() dialogs shown since the last click on
                        \* the directions button, by their message
    effect,             \* the re-selection effect is scheduled: "none", or the
                        \* dependency that changed, "allRoutes" | "routeType"
    pc,                 \* position of the running handleGetDirections
    cl,                 \* what the running handlers closed over at the click,
                        \* Null when none runs
    start, end,         \* the geocoded endpoints of the running request, Null
                        \* when none runs
    routes,             \* calculateRoute's local candidate list, empty when
                        \* none runs
    routedFor,          \* the endpoints calculateRoute was called with when it
                        \* stored allRoutes and currentRoute, Null before
    \* ---- the shade score applied to one input ----
    shGeometry, shMinutes, shLayer, shResult,
    \* ---- generateShadeOptimizedRoute applied to one input ----
    wpStart, wpEnd, wpMinutes, wpPc, waypoints, wpRequested, wpRoute,
    \* ---- the candidate list of calculateRoute for one set of responses ----
    routeResults,       \* what the three routing requests settle with, by
                        \* request
    arrival,            \* the order in which the three requests settle
    cdShadeRoute,       \* what generateShadeOptimizedRoute returns
    osrmAnswer,         \* data.routes of the fallback routing service
    cdPc,               \* "idle" | "built"
    cdRoutes,           \* `routes` at `if (routes.length > 0)`
    osrmRequests,       \* requests sent to the fallback routing service
    cdScored,           \* routesWithShade, empty when there is none
    \* ---- the selection applied to one scored list ----
    slInput,            \* the scored list handed to the selection
    slRoutes,           \* the stored list (allRoutes, routesWithShade)
    slMode,             \* routeType
    slSelected,         \* selectedRoute, Null before the selection
    \* ---- address suggestions ----
    searchTimeout,      \* the pending timer of searchTimeoutRef with the
                        \* value and field it was set for, or Null
    searches,           \* the suggestion searches in flight, in issue order
    suggestions,        \* startSuggestions and endSuggestions, by field
    showSuggestions,    \* showStartSuggestions and showEndSuggestions
    address,            \* startAddress and endAddress, by field
    issued,             \* the query of the last call of
                        \* searchAddressSuggestions, by field
    \* ---- the backend (express) ----
    env,                \* process.env: SHADEMAP_API_KEY and ORS_API_KEY
    bePc,               \* "idle" | "fetching": /api/geocode awaits upstream
    beRequest,          \* the request being handled or handled last, or Null
    beResponse          \* the response sent to it, or Null

appVars == <<mapInit, orsApiKey, shadeMap, minutesOfDay, routeType, allRoutes,
             currentRoute, routeLayer, markers, isCalculatingRoute, alerts,
             effect, pc, cl, start, end, routes, routedFor>>
shVars == <<shGeometry, shMinutes, shLayer, shResult>>
wpVars == <<wpStart, wpEnd, wpMinutes, wpPc, waypoints, wpRequested, wpRoute>>
cdVars == <<routeResults, arrival, cdShadeRoute, osrmAnswer, cdPc, cdRoutes,
            osrmRequests, cdScored>>
sgVars == <<searchTimeout, searches, suggestions, showSuggestions, address,
            issued>>
beVars == <<env, bePc, beRequest, beResponse>>
slVars == <<slInput, slRoutes, slMode, slSelected>>
vars == <<appVars, shVars, wpVars, cdVars, sgVars, beVars, slVars>>

\* null / undefined
Null == [null |-> TRUE]

Abs(x) == IF x < 0 THEN -x ELSE x
Min(a, b) == IF a <= b THEN a ELSE b
Max(a, b) == IF a >= b THEN a ELSE b

-----------------------------------------------------------------------------
\* The shade score (sampleShadowAlongRoute)

\* Math.sin on [0, pi], by Bhaskara's formula 16y(pi-y) / (5pi^2 - 4y(pi-y)),
\* which is within 0.002 of the sine; pi = 3.14.
SinHalf(y) == (1600 * y * (314 - y)) \div (5 * 314 * 314 - 4 * y * (314 - y))

\* Math.sin(x), x in hundredths of a radian, reduced modulo 2 pi = 6.28.
Sin100(x) ==
    LET r == x % 628
    IN  IF r <= 314 THEN SinHalf(r) ELSE -SinHalf(r - 314)

\* const hour = Math.floor(minutesOfDay / 60)
HourOf(minutes) == minutes \div 60

\* Mutant: the daylight test with the upper bound one hour late
IsDaylightLate(hour) == hour >= 6 /\ hour <= 19

\* if (hour >= 6 && hour <= 18)   // Daylight hours
IsDaylight(hour) == hour >= 6 /\ hour <= 18

\* Mutant: the base term falling with the distance from noon
baseShadeFalling(hour) == 60 - Min(Abs(hour - 12) * 8, 60)

\* const baseShade = Math.min(noonDistance * 8, 60), in percent
baseShade(hour) ==
    LET noonDistance == Abs(hour - 12)
    IN  Min(noonDistance * 8, 60)

\* routeHash and routeVariation; coordinates[0] of an empty list is undefined,
\* so the caller does not get here with geometry.n = 0.
routeVariation(geometry) ==
    LET isShadeOptimized == geometry.n > 100
        routeHash == geometry.n * 100 + geometry.lng + geometry.lat
    IN  IF isShadeOptimized
        THEN 2000 + (Sin100(routeHash) + 100) * 15
        ELSE (Sin100(routeHash) + 100) * 15

\* Math.min(100, Math.max(0, shadeScore))
Clamp(shadeScore) == Min(10000, Max(0, shadeScore))

Return(v) == [threw |-> FALSE, score |-> v]
Throw == [threw |-> TRUE, score |-> -1]

\* Mutant: the function without its early return for a missing layer
sampleShadowNoDefault(geometry, minutes, layer) ==
    LET hour == HourOf(minutes)
    IN  IF IsDaylight(hour)
        THEN IF geometry.n = 0
             THEN Throw
             ELSE Return(Clamp(baseShade(hour) * 100 + routeVariation(geometry)))
        ELSE Return(9500)

\* The whole function: the result for one geometry at one time of day, with the
\* shadow layer set or not. A geometry is [n, lng, lat]: the number of
\* coordinates and the first coordinate.
sampleShadowAlongRoute(geometry, minutes, layer) ==
    IF ~layer
    THEN Return(5000)
    ELSE LET hour == HourOf(minutes)
         IN  IF IsDaylight(hour)
             THEN IF geometry.n = 0
                  THEN Throw  \* coordinates[0][0]: TypeError
                  ELSE Return(Clamp(baseShade(hour) * 100 + routeVariation(geometry)))
             ELSE Return(9500)

\* Math.round(shadeScore)
RoundPercent(score) == (score + 50) \div 100

-----------------------------------------------------------------------------
\* Waypoints of the shade-optimized candidate

\* The sun azimuth of generateShadeOptimizedRoute, in quarter degrees:
\* timeDecimal < 12 ? 90 + (timeDecimal - 6) * 15 : 180 + (timeDecimal - 12) * 15
\* with timeDecimal = hour + minute / 60.
sunAzimuth(minutes) ==
    LET hour == HourOf(minutes)
        minute == minutes % 60
    IN  IF hour * 60 + minute < 12 * 60
        THEN 90 * 4 + (hour * 60 + minute - 6 * 60)
        ELSE 180 * 4 + (hour * 60 + minute - 12 * 60)

\* Math.floor of the square root of t[1], by bisection on t[2]..t[3]. A
\* function, so that each step works on the values of its bounds.
SqrtIn[t \in Nat \X Nat \X Nat] ==
    LET s == t[1]
        lo == t[2]
        hi == t[3]
        mid == (lo + hi + 1) \div 2
    IN  IF lo >= hi
        THEN lo
        ELSE IF mid * mid <= s
             THEN SqrtIn[<<s, mid, hi>>]
             ELSE SqrtIn[<<s, lo, mid - 1>>]

ISqrt(s) == SqrtIn[<<s, 0, 46340>>]

\* Math.pow(end[0] - start[0], 2) + Math.pow(end[1] - start[1], 2)
SquaredDistance(a, b) ==
    (b.lat - a.lat) * (b.lat - a.lat) + (b.lng - a.lng) * (b.lng - a.lng)

\* const distance = Math.sqrt(...), to the micro-degree
Distance(a, b) == ISqrt(SquaredDistance(a, b))

\* if (distance < 0.005) return waypoints   (decided on the square: exact)
MinDetourDistance == 5000
\* if (distance > 0.01)   // ~1km
TwoWaypointDistance == 10000
\* Math.min(distance * 0.3, 0.002)   // Max 200m offset
MaxOffset == 2000

\* Mutant: the offset without its cap
offsetDistanceUncapped(a, b) == (Distance(a, b) * 3) \div 10

offsetDistance(a, b) == Min((Distance(a, b) * 3) \div 10, MaxOffset)

\* A coordinate pair [lat, lng]
Coords(lat, lng) == [lat |-> lat, lng |-> lng]

\* Mutant: the sun due south counted with the morning
OffsetSouthAsMorning(a, b, azimuth) ==
    LET o == (offsetDistance(a, b) * 7) \div 10
    IN  IF azimuth <= 180 * 4 THEN Coords(-o, -o) ELSE Coords(o, o)

\* latOffset and lngOffset: -offsetDistance * 0.7 for sunAzimuth < 180,
\* offsetDistance * 0.7 otherwise, on both axes.
Offset(a, b, azimuth) ==
    LET o == (offsetDistance(a, b) * 7) \div 10
    IN  IF azimuth < 180 * 4 THEN Coords(-o, -o) ELSE Coords(o, o)

\* start + (end - start) * f / 100 on both axes (f = 33, 67)
Interpolate(a, b, f) ==
    Coords(a.lat + ((b.lat - a.lat) * f) \div 100,
           a.lng + ((b.lng - a.lng) * f) \div 100)

\* [(start[0] + end[0]) / 2, (start[1] + end[1]) / 2]
Midpoint(a, b) == Coords((a.lat + b.lat) \div 2, (a.lng + b.lng) \div 2)

Shift(p, o) == Coords(p.lat + o.lat, p.lng + o.lng)

\* Mutant: the squared distance compared with the unsquared minimum
generateShadedWaypointsNoSqrt(a, b, azimuth) ==
    IF SquaredDistance(a, b) < MinDetourDistance
    THEN <<>>
    ELSE IF SquaredDistance(a, b) > TwoWaypointDistance * TwoWaypointDistance
         THEN <<Shift(Interpolate(a, b, 33), Offset(a, b, azimuth)),
                Shift(Interpolate(a, b, 67), Offset(a, b, azimuth))>>
         ELSE <<Shift(Midpoint(a, b), Offset(a, b, azimuth))>>

\* Mutant: two waypoints from 0.01 degrees on, not above it
generateShadedWaypointsFromOneKm(a, b, azimuth) ==
    IF SquaredDistance(a, b) < MinDetourDistance * MinDetourDistance
    THEN <<>>
    ELSE IF SquaredDistance(a, b) >= TwoWaypointDistance * TwoWaypointDistance
         THEN <<Shift(Interpolate(a, b, 33), Offset(a, b, azimuth)),
                Shift(Interpolate(a, b, 67), Offset(a, b, azimuth))>>
         ELSE <<Shift(Midpoint(a, b), Offset(a, b, azimuth))>>

generateShadedWaypoints(a, b, azimuth) ==
    IF SquaredDistance(a, b) < MinDetourDistance * MinDetourDistance
    THEN <<>>
    ELSE IF SquaredDistance(a, b) > TwoWaypointDistance * TwoWaypointDistance
         THEN <<Shift(Interpolate(a, b, 33), Offset(a, b, azimuth)),
                Shift(Interpolate(a, b, 67), Offset(a, b, azimuth))>>
         ELSE <<Shift(Midpoint(a, b), Offset(a, b, azimuth))>>

-----------------------------------------------------------------------------
\* Selection of the displayed candidate

\* Mutant: a sort that puts the later of two equal scores first
RECURSIVE InsertByShadeLaterFirst(_, _)
InsertByShadeLaterFirst(r, sorted) ==
    IF sorted = <<>>
    THEN <<r>>
    ELSE IF Head(sorted).shadeScore > r.shadeScore
         THEN <<Head(sorted)>> \o InsertByShadeLaterFirst(r, Tail(sorted))
         ELSE <<r>> \o sorted

\* validRoutes.sort((a, b) => b.shadeScore - a.shadeScore): a stable sort by
\* descending shade score, here by insertion.
RECURSIVE InsertByShade(_, _)
InsertByShade(r, sorted) ==
    IF sorted = <<>>
    THEN <<r>>
    ELSE IF Head(sorted).shadeScore >= r.shadeScore
         THEN <<Head(sorted)>> \o InsertByShade(r, Tail(sorted))
         ELSE <<r>> \o sorted

RECURSIVE SortByShade(_)
SortByShade(rs) ==
    IF rs = <<>>
    THEN <<>>
    ELSE InsertByShade(rs[Len(rs)], SortByShade(SubSeq(rs, 1, Len(rs) - 1)))

\* route.distance <= fastestDistance * 1.5, as 2 * distance <= 3 * fastestDistance
WithinMaxDistance(route, rs) == 2 * route.distance <= 3 * rs[1].distance

ValidRoutes(rs) == SelectSeq(rs, LAMBDA route : WithinMaxDistance(route, rs))

\* Mutant: the shadiest of all candidates, without the distance filter
SelectRouteNoFilter(mode, rs) ==
    IF mode = "fastest" THEN rs[1] ELSE SortByShade(rs)[1]

\* Mutant: the first candidate that passes the filter, without the sort
SelectRouteNoSort(mode, rs) ==
    IF mode = "fastest"
    THEN rs[1]
    ELSE IF ValidRoutes(rs) = <<>> THEN rs[1] ELSE ValidRoutes(rs)[1]

\* Mutant: "fastest" as the candidate of the lowest duration
SelectRouteByDuration(mode, rs) ==
    IF mode = "fastest"
    THEN rs[CHOOSE i \in 1..Len(rs) : \A j \in 1..Len(rs) : rs[i].duration <= rs[j].duration]
    ELSE LET sorted == SortByShade(ValidRoutes(rs))
         IN  IF sorted = <<>> THEN rs[1] ELSE sorted[1]

\* The selection of calculateRoute and of the re-selection effect, for a
\* non-empty list: the same code twice.
SelectRoute(mode, rs) ==
    IF mode = "fastest"
    THEN rs[1]
    ELSE LET sorted == SortByShade(ValidRoutes(rs))
         IN  IF sorted = <<>> THEN rs[1] ELSE sorted[1]

-----------------------------------------------------------------------------
\* Inputs of the environment: what the services answer and what the user sets

Geometry(n, lng, lat) == [n |-> n, lng |-> lng, lat |-> lat]

Answer(distance, duration, geometry) ==
    [distance |-> distance, duration |-> duration, geometry |-> geometry]

\* Answers of the routing service to the three alternative requests: a feature
\* with its segment's distance and duration.
RoutePool ==
    { Answer(1000, 720, Geometry(40, -12233, 4760)),
      Answer(1600, 1150, Geometry(125, -12233, 4760)) }

\* Answers to the request through the waypoints.
WaypointPool ==
    { Answer(1450, 1050, Geometry(152, -12233, 4760)) }

\* Geocoded places: where the start address is found, and where the end
\* address is, 0.003 and 0.02 * sqrt(2) degrees from it.
StartPlaces == { Coords(47600000, -122330000) }
EndPlaces == { Coords(47603000, -122330000), Coords(47620000, -122310000) }

\* Positions of the time slider (0..1439): 13:00 and 22:00.
SliderValues == {780, 1320}

RouteTypes == {"fastest", "shadiest"}

-----------------------------------------------------------------------------
\* calculateRoute: the candidate list

\* Math.abs(existingRoute.distance - route.distance) < 50   // Within 50m
DuplicateDistance == 50

\* Mutant: a route exactly 50 m from a kept one counted as its duplicate
isDuplicateAtFifty(rs, route) ==
    \E k \in 1..Len(rs) : Abs(rs[k].distance - route.distance) <= DuplicateDistance

isDuplicate(rs, route) ==
    \E k \in 1..Len(rs) : Abs(rs[k].distance - route.distance) < DuplicateDistance

\* Mutant: a failed request discards what the loop has collected
AddRouteAllOrNothing(rs, answer, i) ==
    IF answer = Null
    THEN <<>>
    ELSE IF isDuplicate(rs, answer)
         THEN rs
         ELSE Append(rs, [geometry |-> answer.geometry,
                          distance |-> answer.distance,
                          duration |-> answer.duration,
                          variant |-> i])

\* One turn of the loop over routeResults: a rejected request, an unparsable
\* body or an answer without features (Null) adds nothing.
AddRoute(rs, answer, i) ==
    IF answer = Null
    THEN rs
    ELSE IF isDuplicate(rs, answer)
         THEN rs
         ELSE Append(rs, [geometry |-> answer.geometry,
                          distance |-> answer.distance,
                          duration |-> answer.duration,
                          variant |-> i])

BuildRoutes(r1, r2, r3) ==
    AddRoute(AddRoute(AddRoute(<<>>, r1, "1"), r2, "2"), r3, "3")

\* generateShadeOptimizedRoute's result for an answer of routeThroughWaypoints:
\* null for a failed request, else the route tagged as shade-optimized
ShadeOptimizedRoute(answer) ==
    IF answer = Null
    THEN Null
    ELSE [geometry |-> answer.geometry,
          distance |-> answer.distance,
          duration |-> answer.duration,
          variant |-> "shade-optimized"]

\* if (shadeOptimizedRoute) routes.push(shadeOptimizedRoute)
PushShadeOptimized(rs, shadeOptimizedRoute) ==
    IF shadeOptimizedRoute = Null THEN rs ELSE Append(rs, shadeOptimizedRoute)

\* routesWithShade: every route with its score, percentage and routeIndex
ScoreRoutes(rs, minutes, layer) ==
    [i \in 1..Len(rs) |->
        LET shadeScore == sampleShadowAlongRoute(rs[i].geometry, minutes, layer).score
        IN  [geometry |-> rs[i].geometry,
             distance |-> rs[i].distance,
             duration |-> rs[i].duration,
             variant |-> rs[i].variant,
             shadeScore |-> shadeScore,
             shadePercentage |-> RoundPercent(shadeScore),
             routeIndex |-> i]]

\* Promise.all rejects when one sampleShadowAlongRoute throws
ScoringThrows(rs, minutes, layer) ==
    \E i \in 1..Len(rs) : sampleShadowAlongRoute(rs[i].geometry, minutes, layer).threw

-----------------------------------------------------------------------------
\* The UI controller

\* The messages of the errors thrown in calculateRoute, and of the alerts
KeyNotAvailable == "OpenRouteService API key not available"
NoRoutesFound == "No walking routes found"
TypeError == "Cannot read properties of undefined"
CouldNotFind == "Could not find one or both addresses. Please try again."

\* errorMessage in the catch of calculateRoute (every error is an Error)
errorMessage(message) ==
    IF message = NoRoutesFound
    THEN "No walking route found between these locations. Please try different addresses."
    ELSE "Unable to calculate route. Please check your addresses and try again."

ShIdle ==
    /\ shGeometry = Null
    /\ shMinutes = 0
    /\ shLayer = FALSE
    /\ shResult = Null

WpIdle ==
    /\ wpStart = Null
    /\ wpEnd = Null
    /\ wpMinutes = 0
    /\ wpPc = "idle"
    /\ waypoints = <<>>
    /\ wpRequested = FALSE
    /\ wpRoute = Null

CdIdle ==
    /\ routeResults = <<>>
    /\ arrival = <<>>
    /\ cdScored = <<>>
    /\ cdShadeRoute = Null
    /\ osrmAnswer = <<>>
    /\ cdPc = "idle"
    /\ cdRoutes = <<>>
    /\ osrmRequests = 0

\* searchAddressSuggestions has not been called for a field, or the query of
\* its last call
NotCalled == [called |-> FALSE, query |-> <<>>]
CalledWith(query) == [called |-> TRUE, query |-> query]

SgIdle ==
    /\ searchTimeout = Null
    /\ searches = <<>>
    /\ suggestions = [start |-> <<>>, end |-> <<>>]
    /\ showSuggestions = [start |-> FALSE, end |-> FALSE]
    /\ address = [start |-> <<>>, end |-> <<>>]
    /\ issued = [start |-> NotCalled, end |-> NotCalled]

\* The backend is not part of the run: no request is made
BeIdle ==
    /\ env = Null
    /\ bePc = "idle"
    /\ beRequest = Null
    /\ beResponse = Null

\* The selection on its own is not part of the run
SlIdle ==
    /\ slInput = <<>>
    /\ slRoutes = <<>>
    /\ slMode = "shadiest"
    /\ slSelected = Null

\* The state of App after its first render: useState's initial values, the
\* slider at the time of day the page was opened.
AppInit ==
    /\ mapInit = "pending"
    /\ orsApiKey = FALSE
    /\ shadeMap = FALSE
    /\ minutesOfDay \in SliderValues
    /\ routeType = "shadiest"
    /\ allRoutes = <<>>
    /\ currentRoute = Null
    /\ routeLayer = Null
    /\ markers = Null
    /\ isCalculatingRoute = FALSE
    /\ alerts = <<>>
    /\ effect = "none"
    /\ pc = "idle"
    /\ cl = Null
    /\ start = Null
    /\ end = Null
    /\ routes = <<>>
    /\ routedFor = Null

Init == AppInit /\ ShIdle /\ WpIdle /\ CdIdle /\ SgIdle /\ BeIdle /\ SlIdle

\* The UI controller at rest, the page opened at 13:00
AppIdle == AppInit /\ minutesOfDay = 780

\* initializeMap, from the fetch of /api/config on: the config request fails
\* (no key stored, no layer), L.shadeMap throws (key stored, no layer), or both
\* are set.
InitializeMap(key, layer) ==
    /\ layer => key
    /\ mapInit = "pending"
    /\ effect = "none"
    /\ mapInit' = "done"
    /\ orsApiKey' = key
    /\ shadeMap' = layer
    /\ UNCHANGED <<minutesOfDay, routeType, allRoutes, currentRoute, routeLayer,
                   markers, isCalculatingRoute, alerts, effect, pc, cl, start,
                   end, routes, shVars, wpVars, cdVars, sgVars, beVars, slVars,
                   routedFor>>

\* The time slider's onChange: setMinutesOfDay. The callbacks that read
\* minutesOfDay are rebuilt; nothing is scored again.
SetMinutesOfDay(m) ==
    /\ effect = "none"
    /\ m # minutesOfDay
    /\ minutesOfDay' = m
    /\ UNCHANGED <<mapInit, orsApiKey, shadeMap, routeType, allRoutes,
                   currentRoute, routeLayer, markers, isCalculatingRoute, alerts,
                   effect, pc, cl, start, end, routes, shVars, wpVars, cdVars,
                   sgVars, beVars, slVars,
                   routedFor>>

\* The route-option buttons, rendered only when a route is displayed. A change
\* of routeType schedules the re-selection effect.
SetRouteType(t) ==
    /\ effect = "none"
    /\ currentRoute # Null
    /\ t # routeType
    /\ routeType' = t
    /\ effect' = "routeType"
    /\ UNCHANGED <<mapInit, orsApiKey, shadeMap, minutesOfDay, allRoutes,
                   currentRoute, routeLayer, markers, isCalculatingRoute, alerts,
                   pc, cl, start, end, routes, shVars, wpVars, cdVars, sgVars, beVars, slVars,
                   routedFor>>

\* Mutant: the effect runs without selecting
ReselectEffectNoSelection ==
    /\ effect # "none"
    /\ effect' = "none"
    /\ UNCHANGED <<mapInit, orsApiKey, shadeMap, minutesOfDay, routeType,
                   allRoutes, currentRoute, routeLayer, markers,
                   isCalculatingRoute, alerts, pc, cl, start, end, routes,
                   shVars, wpVars, cdVars, sgVars, beVars, slVars,
                   routedFor>>

\* useEffect(..., [routeType, allRoutes, displayRoute])
ReselectEffect ==
    /\ effect # "none"
    /\ effect' = "none"
    /\ IF Len(allRoutes) > 0
       THEN LET selectedRoute == SelectRoute(routeType, allRoutes)
            IN  /\ currentRoute' = selectedRoute
                /\ routeLayer' = selectedRoute.geometry
       ELSE UNCHANGED <<currentRoute, routeLayer>>
    /\ UNCHANGED <<mapInit, orsApiKey, shadeMap, minutesOfDay, routeType,
                   allRoutes, markers, isCalculatingRoute, alerts, pc, cl, start,
                   end, routes, shVars, wpVars, cdVars, sgVars, beVars, slVars,
                   routedFor>>

\* clearRoute, behind the clear button, rendered only when a route is displayed
ClearRoute ==
    /\ effect = "none"
    /\ currentRoute # Null
    /\ markers' = Null
    /\ routeLayer' = Null
    /\ currentRoute' = Null
    /\ UNCHANGED <<mapInit, orsApiKey, shadeMap, minutesOfDay, routeType,
                   allRoutes, isCalculatingRoute, alerts, effect, pc, cl, start,
                   end, routes, shVars, wpVars, cdVars, sgVars, beVars, slVars,
                   routedFor>>

\* The route summary, rendered when currentRoute is set: Math.round(duration /
\* 60) minutes, the distance that toFixed(1) prints in kilometres (kept in
\* metres here), and shadePercentage || 0.
RouteSummary(route) ==
    [ minutes |-> (route.duration + 30) \div 60,
      distance |-> route.distance,
      shadePercentage |-> route.shadePercentage ]

\* Mutant: the directions button left enabled during a calculation
DirectionsNeverDisabled == isCalculatingRoute /\ ~isCalculatingRoute

\* disabled={!startAddress.trim() || !endAddress.trim() || isCalculatingRoute}
\* on the directions button, the only caller of handleGetDirections, with
\* both address fields filled
DirectionsDisabled == isCalculatingRoute

\* handleGetDirections up to its first await, with both address fields
\* filled. The callbacks of this render close over routeType and
\* minutesOfDay.
HandleGetDirections ==
    /\ effect = "none"
    /\ ~DirectionsDisabled
    /\ isCalculatingRoute' = TRUE
    /\ alerts' = <<>>
    /\ cl' = [routeType |-> routeType, minutesOfDay |-> minutesOfDay]
    /\ pc' = "geocodeStart"
    /\ start' = Null
    /\ end' = Null
    /\ routes' = <<>>
    /\ UNCHANGED <<mapInit, orsApiKey, shadeMap, minutesOfDay, routeType,
                   allRoutes, currentRoute, routeLayer, markers, effect, shVars,
                   wpVars, cdVars, sgVars, beVars, slVars,
                   routedFor>>

\* const startCoords = await geocodeAddress(startAddress): coordinates, or null
\* for a failed request or an empty feature list
GeocodeStart(coords) ==
    /\ effect = "none"
    /\ pc = "geocodeStart"
    /\ start' = coords
    /\ pc' = "geocodeEnd"
    /\ UNCHANGED <<mapInit, orsApiKey, shadeMap, minutesOfDay, routeType,
                   allRoutes, currentRoute, routeLayer, markers,
                   isCalculatingRoute, alerts, effect, cl, end, routes, shVars,
                   wpVars, cdVars, sgVars, beVars, slVars,
                   routedFor>>

\* setShowStartSuggestions(false); setShowEndSuggestions(false), after
\* calculateRoute has returned
HideSuggestions == showSuggestions' = [start |-> FALSE, end |-> FALSE]

\* const endCoords = await geocodeAddress(endAddress), the check of both, the
\* markers, and calculateRoute up to await Promise.allSettled(routeRequests)
GeocodeEnd(coords) ==
    /\ effect = "none"
    /\ pc = "geocodeEnd"
    /\ IF start = Null \/ coords = Null
       THEN \* alert('Could not find one or both addresses...'); return
            /\ alerts' = Append(alerts, CouldNotFind)
            /\ isCalculatingRoute' = FALSE
            /\ pc' = "idle"
            /\ cl' = Null
            /\ start' = Null
            /\ end' = Null
            /\ UNCHANGED <<markers, showSuggestions>>
       ELSE /\ markers' = [start |-> start, end |-> coords]
            /\ IF ~orsApiKey
               THEN \* throw new Error('OpenRouteService API key not available'),
                    \* caught in calculateRoute, which returns
                    /\ alerts' = Append(alerts, errorMessage(KeyNotAvailable))
                    /\ HideSuggestions
                    /\ isCalculatingRoute' = FALSE
                    /\ pc' = "idle"
                    /\ cl' = Null
                    /\ start' = Null
                    /\ end' = Null
               ELSE /\ pc' = "routing"
                    /\ end' = coords
                    /\ UNCHANGED <<alerts, isCalculatingRoute, cl, start,
                                   showSuggestions>>
    /\ UNCHANGED <<mapInit, orsApiKey, shadeMap, minutesOfDay, routeType,
                   allRoutes, currentRoute, routeLayer, effect, routes, shVars,
                   wpVars, cdVars, searchTimeout, searches, suggestions, address, issued, beVars, slVars,
                   routedFor>>

\* Mutant: the catch of calculateRoute without the finally of its caller
FinishCalculationNoFinally(rs) ==
    /\ IF Len(rs) > 0 /\ ~ScoringThrows(rs, cl.minutesOfDay, shadeMap)
       THEN LET routesWithShade == ScoreRoutes(rs, cl.minutesOfDay, shadeMap)
                selectedRoute == SelectRoute(cl.routeType, routesWithShade)
            IN  /\ allRoutes' = routesWithShade
                /\ currentRoute' = selectedRoute
                /\ routeLayer' = selectedRoute.geometry
                /\ routedFor' = [start |-> start, end |-> end]
                /\ effect' = "allRoutes"
                /\ isCalculatingRoute' = FALSE
                /\ UNCHANGED alerts
       ELSE /\ alerts' = Append(alerts, errorMessage(IF Len(rs) = 0
                                                     THEN NoRoutesFound
                                                     ELSE TypeError))
            /\ UNCHANGED <<allRoutes, currentRoute, routeLayer, routedFor,
                           effect, isCalculatingRoute>>
    /\ HideSuggestions
    /\ pc' = "idle"
    /\ cl' = Null
    /\ start' = Null
    /\ end' = Null
    /\ routes' = <<>>

\* calculateRoute from `if (routes.length > 0)` to its end, then the rest of
\* handleGetDirections: scoring, setAllRoutes, the selection by the routeType of
\* the closure, setCurrentRoute and displayRoute; or the alert of the catch,
\* for `throw new Error('No walking routes found')` and for what scoring
\* throws; then the finally of handleGetDirections.
FinishCalculation(rs) ==
    /\ IF Len(rs) > 0 /\ ~ScoringThrows(rs, cl.minutesOfDay, shadeMap)
       THEN LET routesWithShade == ScoreRoutes(rs, cl.minutesOfDay, shadeMap)
                selectedRoute == SelectRoute(cl.routeType, routesWithShade)
            IN  /\ allRoutes' = routesWithShade
                /\ currentRoute' = selectedRoute
                /\ routeLayer' = selectedRoute.geometry
                /\ routedFor' = [start |-> start, end |-> end]
                /\ effect' = "allRoutes"
                /\ UNCHANGED alerts
       ELSE /\ alerts' = Append(alerts, errorMessage(IF Len(rs) = 0
                                                     THEN NoRoutesFound
                                                     ELSE TypeError))
            /\ UNCHANGED <<allRoutes, currentRoute, routeLayer, routedFor,
                           effect>>
    /\ isCalculatingRoute' = FALSE
    /\ HideSuggestions
    /\ pc' = "idle"
    /\ cl' = Null
    /\ start' = Null
    /\ end' = Null
    /\ routes' = <<>>

\* The three alternative requests have settled (r1, r2, r3: an answer, or Null
\* for a request that failed); the loop builds the list, and
\* generateShadeOptimizedRoute either posts the request through the waypoints
\* or returns null at once.
RoutingSettled(r1, r2, r3) ==
    /\ effect = "none"
    /\ pc = "routing"
    /\ LET built == BuildRoutes(r1, r2, r3)
           wps == generateShadedWaypoints(start, end, sunAzimuth(cl.minutesOfDay))
       IN  IF Len(wps) = 0
           THEN FinishCalculation(built)
           ELSE /\ routes' = built
                /\ pc' = "waypointRouting"
                /\ UNCHANGED <<allRoutes, currentRoute, routeLayer, routedFor,
                               effect, alerts, isCalculatingRoute, cl, start,
                               end, showSuggestions>>
    /\ UNCHANGED <<mapInit, orsApiKey, shadeMap, minutesOfDay, routeType,
                   markers, shVars, wpVars, cdVars, searchTimeout, searches,
                   suggestions, address, issued, beVars, slVars>>

\* routeThroughWaypoints has answered (a route, or Null for a failure)
WaypointRouted(answer) ==
    /\ effect = "none"
    /\ pc = "waypointRouting"
    /\ FinishCalculation(PushShadeOptimized(routes, ShadeOptimizedRoute(answer)))
    /\ UNCHANGED <<mapInit, orsApiKey, shadeMap, minutesOfDay, routeType,
                   markers, shVars, wpVars, cdVars, searchTimeout, searches,
                   suggestions, address, issued, beVars, slVars>>

Next ==
    \/ \E key \in BOOLEAN, layer \in BOOLEAN : InitializeMap(key, layer)
    \/ \E m \in SliderValues : SetMinutesOfDay(m)
    \/ \E t \in RouteTypes : SetRouteType(t)
    \/ ReselectEffect
    \/ ClearRoute
    \/ HandleGetDirections
    \/ \E coords \in StartPlaces \cup {Null} : GeocodeStart(coords)
    \/ \E coords \in EndPlaces \cup {Null} : GeocodeEnd(coords)
    \/ \E r1, r2, r3 \in RoutePool \cup {Null} : RoutingSettled(r1, r2, r3)
    \/ \E answer \in WaypointPool \cup {Null} : WaypointRouted(answer)

Spec == Init /\ [][Next]_vars

-----------------------------------------------------------------------------
\* Address suggestions: handleAddressChange and searchAddressSuggestions

\* A text is a sequence of characters; String.prototype.trim
RECURSIVE TrimStart(_)
TrimStart(text) ==
    IF text # <<>> /\ Head(text) = " " THEN TrimStart(Tail(text)) ELSE text

RECURSIVE TrimEnd(_)
TrimEnd(text) ==
    IF text # <<>> /\ text[Len(text)] = " "
    THEN TrimEnd(SubSeq(text, 1, Len(text) - 1))
    ELSE text

Trim(text) == TrimEnd(TrimStart(text))

\* query.trim().length < 3
MinQueryLength == 3

\* The outcome of a search request: a failure (fetch rejects, the status is
\* not ok, the body does not parse) or the parsed body, whose features can be
\* missing
SearchFailed == [ok |-> FALSE]
SearchFound(features) ==
    [ok |-> TRUE, hasFeatures |-> TRUE, features |-> features]
SearchNoFeatures == [ok |-> TRUE, hasFeatures |-> FALSE, features |-> <<>>]

\* data.features.map(feature => ({ name, display_name, lat, lon }))
Suggestion(feature) ==
    [name |-> feature.label, display_name |-> feature.label,
     lat |-> feature.lat, lon |-> feature.lon]

SuggestionsOf(data) ==
    IF ~data.hasFeatures
    THEN <<>>
    ELSE [i \in 1..Len(data.features) |-> Suggestion(data.features[i])]

\* Mutant: the list shown whatever the search returned
SetSuggestionsShown(type, list, show) ==
    /\ suggestions' = [suggestions EXCEPT ![type] = list]
    /\ showSuggestions' = [showSuggestions EXCEPT ![type] = TRUE]

\* The two setters of one field
SetSuggestions(type, list, show) ==
    /\ suggestions' = [suggestions EXCEPT ![type] = list]
    /\ showSuggestions' = [showSuggestions EXCEPT ![type] = show]

\* Searches in flight at once, at most: while directions are requested, and
\* while the user only types
MaxSearches == 1
MaxSuggestSearches == 2

\* handleAddressChange: the pending timer is cleared and a new one set
HandleAddressChange(value, type) ==
    /\ address' = [address EXCEPT ![type] = value]
    /\ searchTimeout' = [value |-> value, type |-> type]
    /\ UNCHANGED <<searches, suggestions, showSuggestions, issued, appVars,
                   shVars, wpVars, cdVars, beVars, slVars>>

\* The timer fires after 300 ms: searchAddressSuggestions up to its fetch, or
\* to its return for a query of fewer than 3 characters
SearchTimeoutFires(inFlight) ==
    /\ searchTimeout # Null
    /\ searchTimeout' = Null
    /\ issued' = [issued EXCEPT ![searchTimeout.type] =
                                    CalledWith(searchTimeout.value)]
    /\ IF Len(Trim(searchTimeout.value)) < MinQueryLength
       THEN /\ SetSuggestions(searchTimeout.type, <<>>, FALSE)
            /\ UNCHANGED searches
       ELSE /\ Len(searches) < inFlight
            /\ searches' = Append(searches, [query |-> searchTimeout.value,
                                             type |-> searchTimeout.type])
            /\ UNCHANGED <<suggestions, showSuggestions>>
    /\ UNCHANGED <<address, appVars, shVars, wpVars, cdVars, beVars, slVars>>

\* The i-th search in flight is answered: searchAddressSuggestions from its
\* fetch on, with the catch for a failure
SuggestionsAnswered(i, outcome) ==
    /\ i \in 1..Len(searches)
    /\ searches' = SubSeq(searches, 1, i - 1) \o SubSeq(searches, i + 1, Len(searches))
    /\ IF outcome.ok
       THEN SetSuggestions(searches[i].type, SuggestionsOf(outcome), TRUE)
       ELSE SetSuggestions(searches[i].type, <<>>, FALSE)
    /\ UNCHANGED <<searchTimeout, address, issued, appVars, shVars, wpVars,
                   cdVars, beVars, slVars>>

FieldTypes == {"start", "end"}

\* Answers of /api/geocode to the search of a query: a failure, a body
\* without features, no match, or one match, labelled with the query
SearchOutcomes(query) ==
    { SearchFailed, SearchNoFeatures, SearchFound(<<>>),
      SearchFound(<<[label |-> query, lat |-> 47609000, lon |-> -122342000]>>) }

\* The query of the i-th search in flight
QueryAt(i) == IF i \in 1..Len(searches) THEN searches[i].query ELSE <<>>

-----------------------------------------------------------------------------
\* The UI controller with its scheduling: every request is answered or fails
\* in the end and its continuation is run, and a scheduled effect is run
\* after the render. The routes answered include one with an empty coordinate
\* list, whose scoring throws by day.

LiveRoutePool == { Answer(1000, 720, Geometry(0, 0, 0)) }

NextLive ==
    \/ \E key \in BOOLEAN, layer \in BOOLEAN : InitializeMap(key, layer)
    \/ \E m \in SliderValues : SetMinutesOfDay(m)
    \/ \E t \in RouteTypes : SetRouteType(t)
    \/ ReselectEffect
    \/ ClearRoute
    \/ HandleGetDirections
    \/ \E coords \in StartPlaces \cup {Null} : GeocodeStart(coords)
    \/ \E coords \in EndPlaces \cup {Null} : GeocodeEnd(coords)
    \/ \E r1, r2, r3 \in LiveRoutePool \cup {Null} : RoutingSettled(r1, r2, r3)
    \/ \E answer \in WaypointPool \cup {Null} : WaypointRouted(answer)

\* A pending request is answered or fails, and its continuation runs
Completion ==
    \/ \E coords \in StartPlaces \cup {Null} : GeocodeStart(coords)
    \/ \E coords \in EndPlaces \cup {Null} : GeocodeEnd(coords)
    \/ \E r1, r2, r3 \in LiveRoutePool \cup {Null} : RoutingSettled(r1, r2, r3)
    \/ \E answer \in WaypointPool \cup {Null} : WaypointRouted(answer)

\* An effect runs after its render (weak fairness); a continuation waits for
\* the effects scheduled before it, which the user can schedule again and
\* again, and still gets its turn (strong fairness).
Fairness ==
    /\ WF_vars(ReselectEffect)
    /\ SF_vars(Completion)

SpecLive == Init /\ [][NextLive]_vars /\ Fairness

-----------------------------------------------------------------------------
\* Directions requests and suggestion searches side by side, with the answers
\* that make them fail

\* What is typed while directions are requested: a query long enough to be
\* searched
FailureTexts == { <<"p", "i", "k", "e">> }

NextFailures ==
    \/ \E key \in BOOLEAN, layer \in BOOLEAN : InitializeMap(key, layer)
    \/ ReselectEffect
    \/ HandleGetDirections
    \/ \E coords \in StartPlaces \cup {Null} : GeocodeStart(coords)
    \/ \E coords \in EndPlaces \cup {Null} : GeocodeEnd(coords)
    \/ \E r1, r2, r3 \in LiveRoutePool \cup {Null} : RoutingSettled(r1, r2, r3)
    \/ \E answer \in WaypointPool \cup {Null} : WaypointRouted(answer)
    \/ \E value \in FailureTexts, type \in FieldTypes : HandleAddressChange(value, type)
    \/ SearchTimeoutFires(MaxSearches)
    \/ \E i \in 1..MaxSearches : \E outcome \in SearchOutcomes(QueryAt(i)) :
          SuggestionsAnswered(i, outcome)

SpecFailures == Init /\ [][NextFailures]_vars

-----------------------------------------------------------------------------
\* The two address fields on their own: the user types, the timer fires 300 ms
\* after the last keystroke, the searches are answered in any order

\* What is typed: two characters between blanks, too short to be searched,
\* and two queries that are searched
SuggestTexts ==
    { <<" ", "p", "i", " ">>, <<"p", "i", "k">>, <<"p", "i", "k", "e">> }

InitSuggest ==
    AppIdle /\ ShIdle /\ WpIdle /\ CdIdle /\ SgIdle /\ BeIdle /\ SlIdle

SuggestionsArrive ==
    \E i \in 1..MaxSuggestSearches : \E outcome \in SearchOutcomes(QueryAt(i)) :
        SuggestionsAnswered(i, outcome)

NextSuggest ==
    \/ \E value \in SuggestTexts, type \in FieldTypes :
          HandleAddressChange(value, type)
    \/ SearchTimeoutFires(MaxSuggestSearches)
    \/ SuggestionsArrive

\* A pending timer fires when no keystroke clears it, and every request is
\* answered or fails in the end
SuggestFairness ==
    /\ WF_vars(SearchTimeoutFires(MaxSuggestSearches))
    /\ WF_vars(SuggestionsArrive)

SpecSuggest == InitSuggest /\ [][NextSuggest]_vars /\ SuggestFairness

-----------------------------------------------------------------------------
\* The shade score on its own: one call of sampleShadowAlongRoute for every
\* geometry, minute of the day and state of the shadow layer

\* Geometries: an empty coordinate list; lists whose routeHash makes the sine
\* 1 and -1, below and above the 100 points of isShadeOptimized; two routes
\* near Seattle.
ShadeGeometries ==
    { Geometry(0, 0, 0),
      Geometry(1, 57, 0), Geometry(1, 371, 0),
      Geometry(101, 105, 0), Geometry(101, 419, 0),
      Geometry(40, -12233, 4760), Geometry(150, -12233, 4760) }

MinutesInDay == 0..1439

InitShade ==
    /\ AppIdle
    /\ WpIdle
    /\ CdIdle
    /\ SgIdle
    /\ BeIdle
    /\ SlIdle
    /\ shGeometry \in ShadeGeometries
    /\ shMinutes \in MinutesInDay
    /\ shLayer \in BOOLEAN
    /\ shResult = Null

SampleShadow ==
    /\ shResult = Null
    /\ shResult' = sampleShadowAlongRoute(shGeometry, shMinutes, shLayer)
    /\ UNCHANGED <<shGeometry, shMinutes, shLayer, appVars, wpVars, cdVars,
                   sgVars, beVars, slVars>>

NextShade == SampleShadow

SpecShade == InitShade /\ [][NextShade]_vars

-----------------------------------------------------------------------------
\* generateShadeOptimizedRoute on its own, as calculateRoute calls it (the
\* routing key is set): one call for every start, end and time of day

WpStarts == { Coords(47600000, -122330000) }

\* Ends by their offset from the start, in micro-degrees: 0, 0.003, just below
\* 0.005, 0.005, 0.006, 0.01, just above 0.01, 0.02 * sqrt(2), and two to the
\* south-west.
WpDeltas ==
    { Coords(0, 0), Coords(3000, 0), Coords(3000, 3999), Coords(3000, 4000),
      Coords(4000, -3000), Coords(3600, 4800), Coords(6000, 8000),
      Coords(6000, 8001), Coords(20000, 20000), Coords(-6000, -8000),
      Coords(-12000, -16000) }

WpEnds == { Shift(a, d) : a \in WpStarts, d \in WpDeltas }

\* 00:00, 05:59, 06:00, 09:00, 11:59, 12:00, 13:00, 23:59
WpMinutes == {0, 359, 360, 540, 719, 720, 780, 1439}

InitWaypoints ==
    /\ AppIdle
    /\ ShIdle
    /\ CdIdle
    /\ SgIdle
    /\ BeIdle
    /\ SlIdle
    /\ wpStart \in WpStarts
    /\ wpEnd \in WpEnds
    /\ wpMinutes \in WpMinutes
    /\ wpPc = "idle"
    /\ waypoints = <<>>
    /\ wpRequested = FALSE
    /\ wpRoute = Null

\* generateShadeOptimizedRoute up to `await routeThroughWaypoints(...)`, or to
\* `return null` when there are no waypoints
GenerateShadeOptimizedRoute ==
    /\ wpPc = "idle"
    /\ LET wps == generateShadedWaypoints(wpStart, wpEnd, sunAzimuth(wpMinutes))
       IN  /\ waypoints' = wps
           /\ IF Len(wps) = 0
              THEN /\ wpPc' = "returned"
                   /\ UNCHANGED wpRequested
              ELSE /\ wpPc' = "routing"
                   /\ wpRequested' = TRUE
    /\ UNCHANGED <<wpStart, wpEnd, wpMinutes, wpRoute, appVars, shVars, cdVars,
                   sgVars, beVars, slVars>>

\* routeThroughWaypoints has answered; generateShadeOptimizedRoute returns
RouteThroughWaypoints(answer) ==
    /\ wpPc = "routing"
    /\ wpRoute' = ShadeOptimizedRoute(answer)
    /\ wpPc' = "returned"
    /\ UNCHANGED <<wpStart, wpEnd, wpMinutes, waypoints, wpRequested, appVars,
                   shVars, cdVars, sgVars, beVars, slVars>>

NextWaypoints ==
    \/ GenerateShadeOptimizedRoute
    \/ \E answer \in WaypointPool \cup {Null} : RouteThroughWaypoints(answer)

SpecWaypoints == InitWaypoints /\ [][NextWaypoints]_vars

-----------------------------------------------------------------------------
\* The candidate list of calculateRoute on its own: the loop over the settled
\* requests, the push of the shade-optimized route and the fallback, for every
\* combination of responses

\* A settled request of Promise.allSettled: rejected, or fulfilled with a
\* response whose body does not parse, or parses to a feature list
Rejected == [status |-> "rejected"]
Fulfilled(body) == [status |-> "fulfilled", body |-> body]
Unparsable == [parsable |-> FALSE]
Features(fs) == [parsable |-> TRUE, features |-> fs]

\* What one turn of the loop works on: data.features[0], or Null when the
\* request was rejected, json() threw into the inner catch, or there is no
\* feature
FeatureOf(result) ==
    IF result.status = "fulfilled"
    THEN IF result.body.parsable
         THEN IF Len(result.body.features) > 0
              THEN result.body.features[1]
              ELSE Null
         ELSE Null
    ELSE Null

\* await result.value.json() throws for a body that does not parse
JsonThrows(result) == result.status = "fulfilled" /\ ~result.body.parsable

\* try { ... } catch (parseError) { }: what is thrown inside does not leave it
InnerTry(thrown) == FALSE

\* The outer catch (orsError) is entered when a statement of the outer try
\* throws: Promise.allSettled does not reject, generateShadeOptimizedRoute
\* catches its own errors, and each turn of the loop is in the inner try.
OrsError(results) ==
    \E i \in 1..Len(results) : InnerTry(JsonThrows(results[i]))

\* `routes` when calculateRoute reaches `if (routes.length > 0)`, and the
\* number of requests it has sent to the fallback service
Candidates(results, shadeRoute, osrm) ==
    IF OrsError(results)
    THEN [routes |-> osrm, osrmRequests |-> 1]
    ELSE [routes |-> PushShadeOptimized(
                        BuildRoutes(FeatureOf(results[1]), FeatureOf(results[2]),
                                    FeatureOf(results[3])),
                        shadeRoute),
          osrmRequests |-> 0]

\* Mutant: the outcomes in the order in which the requests settled
allSettledInArrivalOrder(results, order) ==
    [k \in 1..Len(order) |-> results[order[k]]]

\* Promise.allSettled(routeRequests): each outcome is stored at the index of
\* its request when the request settles, and the array is handed over when all
\* have settled
RECURSIVE StoreSettled(_, _, _)
StoreSettled(values, results, order) ==
    IF order = <<>>
    THEN values
    ELSE StoreSettled([values EXCEPT ![Head(order)] = results[Head(order)]],
                      results, Tail(order))

allSettled(results, order) ==
    StoreSettled([i \in 1..Len(results) |-> Null], results, order)

\* The orders in which three concurrent requests can settle
ArrivalOrders ==
    { o \in [1..3 -> 1..3] : \A i, j \in 1..3 : o[i] = o[j] => i = j }

\* Answers 50 m, 49 m and 1 m apart, and one far from them
CandidateAnswers ==
    { Answer(1000, 720, Geometry(40, -12233, 4760)),
      Answer(1049, 760, Geometry(41, -12233, 4760)),
      Answer(1050, 770, Geometry(42, -12233, 4760)),
      Answer(1600, 1150, Geometry(125, -12233, 4760)) }

SettledResults ==
    {Rejected, Fulfilled(Unparsable), Fulfilled(Features(<<>>))}
        \cup { Fulfilled(Features(<<a>>)) : a \in CandidateAnswers }

\* Answers to the request through the waypoints: far from every alternative,
\* and 20 m from the longest
CandidateWaypointAnswers ==
    { Answer(1450, 1050, Geometry(152, -12233, 4760)),
      Answer(1620, 1170, Geometry(153, -12233, 4760)) }

\* data.routes of the fallback service
OsrmAnswers ==
    { <<>>, <<Answer(1100, 800, Geometry(60, -12233, 4760))>> }

InitCandidates ==
    /\ AppIdle
    /\ ShIdle
    /\ WpIdle
    /\ SgIdle
    /\ BeIdle
    /\ SlIdle
    /\ routeResults \in SettledResults \X SettledResults \X SettledResults
    /\ arrival \in ArrivalOrders
    /\ cdScored = <<>>
    /\ cdShadeRoute \in
          { ShadeOptimizedRoute(a) : a \in CandidateWaypointAnswers \cup {Null} }
    /\ osrmAnswer \in OsrmAnswers
    /\ cdPc = "idle"
    /\ cdRoutes = <<>>
    /\ osrmRequests = 0

\* calculateRoute from `try {` (line 761) to setAllRoutes(routesWithShade),
\* at 13:00 without the shadow layer
CalculateCandidates ==
    /\ cdPc = "idle"
    /\ cdPc' = "built"
    /\ LET c == Candidates(allSettled(routeResults, arrival), cdShadeRoute,
                           osrmAnswer)
       IN  /\ cdRoutes' = c.routes
           /\ osrmRequests' = c.osrmRequests
           /\ cdScored' = IF ScoringThrows(c.routes, 780, FALSE)
                          THEN <<>>
                          ELSE ScoreRoutes(c.routes, 780, FALSE)
    /\ UNCHANGED <<routeResults, arrival, cdShadeRoute, osrmAnswer, appVars,
                   shVars, wpVars, sgVars, beVars, slVars>>

NextCandidates == CalculateCandidates

SpecCandidates == InitCandidates /\ [][NextCandidates]_vars

-----------------------------------------------------------------------------
\* The selection on its own: one scored list, one mode

\* Candidates of a scored list, at most
MaxSelectLen == 3

\* Distances and scores of the candidates: a distance of zero, distances at
\* and just above 150% of 1000 m, and two scores, so that scores tie
SelectDistances == {0, 1000, 1500, 1501}
SelectScores == {2500, 9500}

\* An element of routesWithShade
ScoredRoute(distance, shadeScore, index) ==
    [geometry |-> Geometry(40, -12233, 4760),
     distance |-> distance,
     duration |-> (distance * 72) \div 100,
     variant |-> "1",
     shadeScore |-> shadeScore,
     shadePercentage |-> RoundPercent(shadeScore),
     routeIndex |-> index]

ScoredLists ==
    UNION { { [i \in 1..n |-> ScoredRoute(d[i], p[i], i)] :
                d \in [1..n -> SelectDistances], p \in [1..n -> SelectScores] } :
            n \in 1..MaxSelectLen }

\* allRoutes after a selection: filter returns a new array, and the sort
\* orders that array in place, not allRoutes
StoredAfterSelection(mode, rs) == rs

InitSelect ==
    /\ AppIdle
    /\ ShIdle
    /\ WpIdle
    /\ CdIdle
    /\ SgIdle
    /\ BeIdle
    /\ slInput \in ScoredLists
    /\ slRoutes = slInput
    /\ slMode \in RouteTypes
    /\ slSelected = Null

\* The body of the re-selection effect, and of calculateRoute's selection
Select ==
    /\ slSelected = Null
    /\ slSelected' = SelectRoute(slMode, slRoutes)
    /\ slRoutes' = StoredAfterSelection(slMode, slRoutes)
    /\ UNCHANGED <<slInput, slMode, appVars, shVars, wpVars, cdVars, sgVars,
                   beVars>>

NextSelect == Select

SpecSelect == InitSelect /\ [][NextSelect]_vars

-----------------------------------------------------------------------------
\* The backend: the handlers of GET /api/config and GET /api/geocode, one
\* request at a time (the handlers share no state)

\* A variable of process.env: not set, or a string
Unset == [set |-> FALSE, value |-> ""]
Value(string) == [set |-> TRUE, value |-> string]

\* Mutant: only an undefined variable is missing
FalsyUndefinedOnly(v) == ~v.set

\* !v, for undefined and for a string
Falsy(v) == ~v.set \/ v.value = ""

\* res.status(code).json(body), and res.json(body) with the default status
Response(status, body) == [status |-> status, body |-> body]

KeysNotConfigured ==
    "API keys not configured. Please set SHADEMAP_API_KEY and ORS_API_KEY environment variables."

\* app.get('/api/config', ...)
Config(e) ==
    LET shadeMapApiKey == e.SHADEMAP_API_KEY
        openRouteServiceApiKey == e.ORS_API_KEY
    IN  IF Falsy(shadeMapApiKey) \/ Falsy(openRouteServiceApiKey)
        THEN Response(500, [error |-> KeysNotConfigured])
        ELSE Response(200, [shadeMapApiKey |-> shadeMapApiKey.value,
                            openRouteServiceApiKey |-> openRouteServiceApiKey.value])

\* What the upstream geocoding service does with the proxied search: fetch
\* rejects (a network error), or a response arrives with a status and a body
\* that parses as JSON or does not
FetchRejects == [rejected |-> TRUE, status |-> 0, parses |-> FALSE, data |-> Null]
Upstream(status, data) ==
    [rejected |-> FALSE, status |-> status, parses |-> TRUE, data |-> data]
UpstreamUnparsable(status) ==
    [rejected |-> FALSE, status |-> status, parses |-> FALSE, data |-> Null]

\* app.get('/api/geocode', ...) up to `await fetch(...)`: the responses sent
\* before any upstream request, or Null when the request goes upstream
GeocodeEarly(q, e) ==
    IF Falsy(q)
    THEN Response(400, [error |-> "Query parameter required"])
    ELSE IF Falsy(e.ORS_API_KEY)
         THEN Response(500, [error |-> "ORS_API_KEY not configured"])
         ELSE Null

\* ... and from the upstream answer on: `await response.json()` and
\* res.json(data), or the catch
GeocodeLate(upstream) ==
    IF upstream.rejected \/ ~upstream.parses
    THEN Response(500, [error |-> "Geocoding failed"])
    ELSE Response(200, upstream.data)

\* The environment the backend is started in
KeyValues == { Unset, Value(""), Value("key") }

\* req.query.q: absent, empty, or a text
Queries == { Unset, Value(""), Value("pike"), Value("pine") }

\* Upstream answers: a feature collection, with and without features (up to
\* the size=5 of the request), the error body of a refused key, an exceeded
\* quota or a failing service, and a gateway's HTML page
FeatureCollection(n) == [type |-> "FeatureCollection", features |-> n]
UpstreamError(message) == [error |-> message]
UpstreamAnswers ==
    { FetchRejects,
      Upstream(200, FeatureCollection(0)),
      Upstream(200, FeatureCollection(2)),
      Upstream(403, UpstreamError("Access to this API has been disallowed")),
      Upstream(429, UpstreamError("Rate limit exceeded")),
      Upstream(500, UpstreamError("Internal server error")),
      Upstream(200, FeatureCollection(5)),
      UpstreamUnparsable(502),
      UpstreamUnparsable(200) }

InitBackend ==
    /\ AppIdle
    /\ ShIdle
    /\ WpIdle
    /\ CdIdle
    /\ SgIdle
    /\ SlIdle
    /\ env \in [SHADEMAP_API_KEY : KeyValues, ORS_API_KEY : KeyValues]
    /\ bePc = "idle"
    /\ beRequest = Null
    /\ beResponse = Null

\* GET /api/config is handled
GetConfig ==
    /\ bePc = "idle"
    /\ beRequest' = [path |-> "/api/config", q |-> Unset]
    /\ beResponse' = Config(env)
    /\ UNCHANGED <<env, bePc, appVars, shVars, wpVars, cdVars, sgVars, slVars>>

\* GET /api/geocode is handled up to its response or to its upstream request
GetGeocode(q) ==
    /\ bePc = "idle"
    /\ beRequest' = [path |-> "/api/geocode", q |-> q]
    /\ beResponse' = GeocodeEarly(q, env)
    /\ bePc' = IF GeocodeEarly(q, env) = Null THEN "fetching" ELSE "idle"
    /\ UNCHANGED <<env, appVars, shVars, wpVars, cdVars, sgVars, slVars>>

\* The upstream request settles and the handler finishes
UpstreamSettles(upstream) ==
    /\ bePc = "fetching"
    /\ bePc' = "idle"
    /\ beRequest' = [path |-> beRequest.path, q |-> beRequest.q,
                     upstream |-> upstream]
    /\ beResponse' = GeocodeLate(upstream)
    /\ UNCHANGED <<env, appVars, shVars, wpVars, cdVars, sgVars, slVars>>

NextBackend ==
    \/ GetConfig
    \/ \E q \in Queries : GetGeocode(q)
    \/ \E upstream \in UpstreamAnswers : UpstreamSettles(upstream)

SpecBackend == InitBackend /\ [][NextBackend]_vars

-----------------------------------------------------------------------------
\* Route selection (Spec)

\* calculateRoute has just stored its scored list and its selection
CalcSelects == effect = "none" /\ effect' = "allRoutes"

\* The re-selection effect has just run on a non-empty list
EffectSelects == effect # "none" /\ effect' = "none" /\ Len(allRoutes) > 0

\* distance <= 1.5 * the first candidate's distance
InBound(route, rs) == 2 * route.distance <= 3 * rs[1].distance

BoundedOrFirst(rs, selected) ==
    \/ InBound(selected, rs)
    \/ /\ \A i \in 1..Len(rs) : ~InBound(rs[i], rs)
       /\ selected = rs[1]

\* C1: in mode "shadiest" the route selected from a non-empty scored list, by
\* calculateRoute (with the mode of its closure) and by the re-selection
\* effect alike, is at most 1.5 times as long as the first candidate, unless
\* no candidate is, and then it is the first candidate.
C1_ShadiestWithinBound ==
    [][ /\ (CalcSelects /\ cl.routeType = "shadiest")
            => BoundedOrFirst(allRoutes', currentRoute')
        /\ (EffectSelects /\ routeType = "shadiest")
            => BoundedOrFirst(allRoutes, currentRoute') ]_vars

\* A longer candidate with a higher score than the displayed one was passed over
C1_Witness ==
    /\ routeType = "shadiest"
    /\ effect = "none"
    /\ currentRoute # Null
    /\ Len(allRoutes) > 0
    /\ InBound(currentRoute, allRoutes)
    /\ \E i \in 1..Len(allRoutes) :
          /\ ~InBound(allRoutes[i], allRoutes)
          /\ allRoutes[i].shadeScore > currentRoute.shadeScore

Survivor(rs, selected) ==
    /\ \E i \in 1..Len(rs) : rs[i] = selected /\ InBound(rs[i], rs)
    /\ \A i \in 1..Len(rs) : InBound(rs[i], rs) => rs[i].shadeScore <= selected.shadeScore

\* C2: in mode "shadiest" the selected route is one of the candidates within
\* 1.5 times the first candidate's distance, and none of those has a strictly
\* higher shade score.
C2_ShadiestIsMaxOfSurvivors ==
    [][ /\ (CalcSelects /\ cl.routeType = "shadiest")
            => Survivor(allRoutes', currentRoute')
        /\ (EffectSelects /\ routeType = "shadiest")
            => Survivor(allRoutes, currentRoute') ]_vars

\* The displayed route is not the first candidate: it beat it on the score
C2_Witness ==
    /\ routeType = "shadiest"
    /\ effect = "none"
    /\ currentRoute # Null
    /\ Len(allRoutes) > 1
    /\ currentRoute # allRoutes[1]
    /\ currentRoute.shadeScore > allRoutes[1].shadeScore
    /\ \E i \in 1..Len(allRoutes) :
          InBound(allRoutes[i], allRoutes) /\ allRoutes[i] # currentRoute

\* C3: in mode "fastest" the selected route is the first candidate of the
\* scored list, whatever the other candidates' scores and distances.
C3_FastestIsFirst ==
    [][ /\ (CalcSelects /\ cl.routeType = "fastest")
            => currentRoute' = allRoutes'[1]
        /\ (EffectSelects /\ routeType = "fastest")
            => currentRoute' = allRoutes[1] ]_vars

\* The first candidate is displayed although another one is shadier and another
\* one shorter and quicker
C3_Witness ==
    /\ routeType = "fastest"
    /\ effect = "none"
    /\ currentRoute # Null
    /\ Len(allRoutes) > 1
    /\ currentRoute = allRoutes[1]
    /\ \E i \in 1..Len(allRoutes) : allRoutes[i].shadeScore > currentRoute.shadeScore
    /\ \E i \in 1..Len(allRoutes) :
          /\ allRoutes[i].distance < currentRoute.distance
          /\ allRoutes[i].duration < currentRoute.duration

\* C4: the first entry of the candidate list built by calculateRoute is the
\* fastest one: no candidate has a strictly lower duration than the first.
C4_FirstIsFastest ==
    \A i \in 1..Len(allRoutes) : allRoutes[i].duration >= allRoutes[1].duration

-----------------------------------------------------------------------------
\* The shade score (SpecShade)

shHour == shMinutes \div 60

\* min(|hour - 12| * 8, 60) plus the variation of the geometry, clamped
DaytimeRule(hour, geometry) ==
    LET d == IF hour >= 12 THEN hour - 12 ELSE 12 - hour
        base == IF d * 8 <= 60 THEN d * 8 ELSE 60
        sum == base * 100 + routeVariation(geometry)
    IN  IF sum > 10000 THEN 10000 ELSE IF sum < 0 THEN 0 ELSE sum

\* C5 as claimed: for every hour outside [6,18), hours 0..5 and 18..23, the
\* shade score of any route is exactly 95.
C5_NightScoreIs95_AsClaimed ==
    (shResult # Null /\ (shHour < 6 \/ shHour >= 18))
        => shResult = Return(9500)

\* C5 as amended: with the shadow layer set, the score of any route is exactly
\* 95 for every hour outside [6,18], hours 0..5 and 19..23, while hour 18
\* follows the daytime rule; without the layer the score is 50 at every hour.
C5_NightScoreIs95 ==
    shResult # Null =>
        /\ (shLayer /\ (shHour < 6 \/ shHour > 18)) => shResult = Return(9500)
        /\ (shLayer /\ shHour = 18 /\ shGeometry.n > 0)
              => shResult = Return(DaytimeRule(18, shGeometry))
        /\ ~shLayer => shResult = Return(5000)

\* 19:00 with the layer set, for a route with coordinates
C5_Witness ==
    /\ shResult = Return(9500)
    /\ shLayer
    /\ shMinutes = 19 * 60
    /\ shGeometry.n > 0

\* The score the same call returns at another minute of the day
ScoreAt(minutes) == sampleShadowAlongRoute(shGeometry, minutes, shLayer)

\* C6: for every hour in [6,18) a returned score lies in [0,100]; for the same
\* route it is non-decreasing in |hour - 12|; and with the layer set it is the
\* base term min(|hour - 12| * 8, 60), 8 at hour 13, plus the route's
\* variation.
C6_DaytimeScore ==
    (shResult # Null /\ ~shResult.threw /\ shHour >= 6 /\ shHour < 18) =>
        /\ shResult.score >= 0
        /\ shResult.score <= 10000
        /\ \A h \in 6..17 : \A m \in {h * 60, h * 60 + 59} :
              Abs(shHour - 12) <= Abs(h - 12)
                  => /\ ~ScoreAt(m).threw
                     /\ shResult.score <= ScoreAt(m).score
        /\ shLayer => shResult.score = DaytimeRule(shHour, shGeometry)
        /\ (shLayer /\ shHour = 13)
              => shResult.score = 800 + routeVariation(shGeometry)

\* 13:00 with the layer set: base 8, and a variation that is not zero
C6_Witness ==
    /\ shResult # Null
    /\ ~shResult.threw
    /\ shLayer
    /\ shMinutes = 13 * 60
    /\ shGeometry.n > 100
    /\ shResult.score > 800

-----------------------------------------------------------------------------
\* Waypoint generation (SpecWaypoints)

wpDLat == wpEnd.lat - wpStart.lat
wpDLng == wpEnd.lng - wpStart.lng

\* The squared start-end distance, in square micro-degrees
wpSquare == wpDLat * wpDLat + wpDLng * wpDLng

\* generateShadeOptimizedRoute has computed its waypoints
wpCalled == wpPc # "idle"

\* C8: for a start-end distance below 0.005 degrees waypoint generation
\* returns an empty list, for either sun direction, and no shade-optimized
\* candidate is requested or returned to calculateRoute, which appends none.
C8_ShortTripNoDetour ==
    (wpCalled /\ wpSquare < 5000 * 5000) =>
        /\ waypoints = <<>>
        /\ \A azimuth \in {90 * 4, 270 * 4} :
              generateShadedWaypoints(wpStart, wpEnd, azimuth) = <<>>
        /\ wpPc = "returned"
        /\ ~wpRequested
        /\ wpRoute = Null
        /\ \A rs \in {<<>>, <<wpStart>>} : PushShadeOptimized(rs, wpRoute) = rs

\* A trip of just under 0.005 degrees in the afternoon, returned without a request
C8_Witness ==
    /\ wpPc = "returned"
    /\ wpSquare > 0
    /\ wpSquare < 5000 * 5000
    /\ wpSquare > 4999 * 4999
    /\ wpMinutes >= 12 * 60
    /\ waypoints = <<>>
    /\ ~wpRequested

\* The point of the start-end line the i-th of n waypoints is an offset copy
\* of: 0.33 and 0.67 of the way for two, the midpoint for one
Unoffset(i, n) ==
    IF n = 2
    THEN [lat |-> wpStart.lat + (wpDLat * (IF i = 1 THEN 33 ELSE 67)) \div 100,
          lng |-> wpStart.lng + (wpDLng * (IF i = 1 THEN 33 ELSE 67)) \div 100]
    ELSE [lat |-> (wpStart.lat + wpEnd.lat) \div 2,
          lng |-> (wpStart.lng + wpEnd.lng) \div 2]

\* The displacement of the i-th waypoint from that point
Displacement(i) ==
    [lat |-> waypoints[i].lat - Unoffset(i, Len(waypoints)).lat,
     lng |-> waypoints[i].lng - Unoffset(i, Len(waypoints)).lng]

\* C9: waypoint generation returns 0 to 2 waypoints: two, offset copies of the
\* interpolation at the 1/3 and 2/3 marks (0.33 and 0.67 in the code), above
\* 0.01 degrees; one, an offset copy of the midpoint, from 0.005 to 0.01
\* degrees; and all of them carry the same offset vector, which is at most the
\* 0.002-degree cap on either axis.
C9_WaypointCount ==
    wpCalled =>
        /\ Len(waypoints) \in 0..2
        /\ wpSquare > 10000 * 10000 => Len(waypoints) = 2
        /\ (wpSquare >= 5000 * 5000 /\ wpSquare <= 10000 * 10000)
              => Len(waypoints) = 1
        /\ \A i, j \in 1..Len(waypoints) : Displacement(i) = Displacement(j)
        /\ \A i \in 1..Len(waypoints) :
              /\ Displacement(i).lat = Displacement(i).lng
              /\ Displacement(i).lat # 0
              /\ Displacement(i).lat <= 2000
              /\ Displacement(i).lat >= -2000

\* Exactly 0.01 degrees apart: one waypoint
C9_Witness ==
    /\ wpCalled
    /\ wpSquare = 10000 * 10000
    /\ Len(waypoints) = 1

\* min(30% of the distance, 0.002 degrees), in micro-degrees
wpMagnitude ==
    LET d == Distance(wpStart, wpEnd)
    IN  IF (d * 3) \div 10 <= 2000 THEN (d * 3) \div 10 ELSE 2000

SquaredLength(v) == v.lat * v.lat + v.lng * v.lng

\* C10 as claimed: the displacement of each waypoint from its un-offset
\* interpolation point has length min(30% of the distance, 0.002 degrees),
\* here to within a micro-degree.
C10_OffsetLength_AsClaimed ==
    \A i \in 1..Len(waypoints) :
        /\ SquaredLength(Displacement(i)) >= (wpMagnitude - 1) * (wpMagnitude - 1)
        /\ SquaredLength(Displacement(i)) <= (wpMagnitude + 1) * (wpMagnitude + 1)

\* C10 as amended: each waypoint is displaced by 0.7 * min(30% of the
\* distance, 0.002 degrees) in latitude and by the same in longitude, so the
\* displacement's length is sqrt(0.98), about 0.99, of that minimum (its
\* square 98% of the minimum's square) and never reaches it.
C10_OffsetComponents ==
    \A i \in 1..Len(waypoints) :
        /\ Abs(Displacement(i).lat) = Abs(Displacement(i).lng)
        /\ 10 * Abs(Displacement(i).lat) <= 7 * wpMagnitude
        /\ 10 * Abs(Displacement(i).lat) > 7 * wpMagnitude - 10
        /\ 100 * SquaredLength(Displacement(i)) <= 98 * wpMagnitude * wpMagnitude
        /\ SquaredLength(Displacement(i)) < wpMagnitude * wpMagnitude

\* A capped and an uncapped offset: 0.0014 degrees on each axis for the long
\* trip, 0.7 * 0.3 * 0.005 for the short one
C10_Witness ==
    /\ wpCalled
    /\ Len(waypoints) >= 1
    /\ \/ wpSquare > 10000 * 10000 /\ Abs(Displacement(1).lat) = 1400
       \/ wpSquare = 5000 * 5000 /\ Abs(Displacement(1).lat) = 1050

\* C11: every waypoint is displaced to the south-west (latitude and longitude
\* both lowered) when the sun azimuth is below 180 degrees and to the
\* north-east (both raised) when it is 180 degrees or more, whatever the
\* direction of the trip; and the azimuth derived from the time slider is
\* below 180 degrees exactly for the minutes before 12:00, for every minute
\* 0..1439.
C11_OffsetDirection ==
    /\ \A m \in MinutesInDay : (sunAzimuth(m) < 180 * 4) <=> (m < 12 * 60)
    /\ wpCalled =>
          \A i \in 1..Len(waypoints) :
              /\ sunAzimuth(wpMinutes) < 180 * 4
                    => Displacement(i).lat < 0 /\ Displacement(i).lng < 0
              /\ sunAzimuth(wpMinutes) >= 180 * 4
                    => Displacement(i).lat > 0 /\ Displacement(i).lng > 0
              /\ wpMinutes < 12 * 60 <=> Displacement(i).lat < 0

\* Noon sharp, the azimuth exactly 180 degrees, on a trip heading south-west:
\* the two waypoints are moved north-east
C11_Witness ==
    /\ wpCalled
    /\ wpMinutes = 12 * 60
    /\ wpDLat < 0
    /\ wpDLng < 0
    /\ Len(waypoints) = 2
    /\ Displacement(1).lat > 0
    /\ Displacement(2).lng > 0

-----------------------------------------------------------------------------
\* The candidate list (SpecCandidates)

\* calculateRoute has built its list
cdDone == cdPc = "built"

\* The feature each of the three requests delivered, or Null
cdFeature(i) == FeatureOf(routeResults[i])

Near(a, b) ==
    IF a.distance >= b.distance
    THEN a.distance - b.distance < 50
    ELSE b.distance - a.distance < 50

\* The routing alternatives of a list: all but the shade-optimized route
Alternatives(rs) == SelectSeq(rs, LAMBDA r : r.variant # "shade-optimized")

\* The alternative of request i is in the list
Kept(i, rs) ==
    \E k \in 1..Len(rs) :
        /\ rs[k].variant = <<"1", "2", "3">>[i]
        /\ rs[k].distance = cdFeature(i).distance
        /\ rs[k].geometry = cdFeature(i).geometry

\* C12 as claimed: in the candidate list of one run, the shade-optimized
\* route included, no two candidates have distances that differ by less than
\* 50 m.
C12_NoNearDuplicates_AsClaimed ==
    cdDone =>
        \A i, j \in 1..Len(cdRoutes) : i # j => ~Near(cdRoutes[i], cdRoutes[j])

\* C12 as amended: among the routing alternatives no two kept candidates
\* differ by less than 50 m; an alternative is dropped exactly when an
\* alternative of an earlier request was kept within less than 50 m of it, and
\* the kept ones stay in request order; the shade-optimized route, when there
\* is one, is appended last without that comparison.
C12_AlternativesDeduplicated ==
    cdDone =>
        LET alts == Alternatives(cdRoutes)
        IN  /\ \A i, j \in 1..Len(alts) : i # j => ~Near(alts[i], alts[j])
            /\ \A i, j \in 1..Len(alts) : i < j => alts[i].variant # alts[j].variant
            /\ \A i \in 1..3 :
                  cdFeature(i) # Null =>
                     (Kept(i, alts) <=>
                        ~\E j \in 1..(i - 1) :
                            /\ cdFeature(j) # Null
                            /\ Kept(j, alts)
                            /\ Near(cdFeature(j), cdFeature(i)))
            /\ \A i \in 1..3 : cdFeature(i) = Null =>
                  ~\E k \in 1..Len(alts) : alts[k].variant = <<"1", "2", "3">>[i]
            /\ IF cdShadeRoute = Null
               THEN cdRoutes = alts
               ELSE cdRoutes = Append(alts, cdShadeRoute)

\* 1000 m kept and 1049 m dropped after it, 1600 m kept, and the
\* shade-optimized route of 1620 m appended 20 m from it
C12_Witness ==
    /\ cdDone
    /\ Len(cdRoutes) = 3
    /\ cdFeature(1) # Null /\ cdFeature(1).distance = 1000
    /\ cdFeature(2) # Null /\ cdFeature(2).distance = 1049
    /\ cdRoutes[1].distance = 1000
    /\ cdRoutes[2].distance = 1600
    /\ cdRoutes[3].variant = "shade-optimized"
    /\ cdRoutes[3].distance = 1620

\* None of the three requests of the primary routing service delivered a
\* route, and neither did its request through the waypoints
PrimaryFailed ==
    /\ \A i \in 1..3 : cdFeature(i) = Null
    /\ cdShadeRoute = Null

\* C13: when the primary routing service fails (its requests reject or return
\* no usable route), calculateRoute sends exactly one request to the fallback
\* service before it reports that no route was found, and takes the
\* fallback's routes as its candidate list when there are any.
C13_FallbackOnPrimaryFailure ==
    (cdDone /\ PrimaryFailed) =>
        /\ osrmRequests = 1
        /\ osrmAnswer # <<>> => cdRoutes = osrmAnswer

\* The requests that delivered a route
Succeeded == { i \in 1..3 : cdFeature(i) # Null }

-----------------------------------------------------------------------------
\* Calculations in flight (Spec)

\* A handleGetDirections run is between its click and its last write
InFlight == pc # "idle"

\* C15 as claimed: a new route calculation can be started while a prior one
\* is still in flight.
C15_StartWhileInFlight_AsClaimed ==
    (InFlight /\ effect = "none") => ENABLED HandleGetDirections

\* C15 as amended: no calculation is cancelled, and none can be started while
\* one is in flight: the directions button is disabled exactly from the click
\* to the end of the run, a run starts only when none is in flight, and the
\* candidate list is written only by the one run in flight as it ends, so no
\* result of an earlier run is written after a later run's.
C15_OneCalculationAtATime ==
    /\ [](InFlight <=> isCalculatingRoute)
    /\ [](InFlight <=> cl # Null)
    /\ [][ /\ (pc # "geocodeStart" /\ pc' = "geocodeStart")
                 => (~InFlight /\ ~isCalculatingRoute)
           /\ allRoutes' # allRoutes => (InFlight /\ pc' = "idle")
           /\ (InFlight /\ pc' # pc)
                 => pc' \in {"geocodeEnd", "routing", "waypointRouting", "idle"} ]_vars

\* A second calculation waits for its route through the waypoints while the
\* route of the first is displayed; the button is disabled
C15_Witness ==
    /\ pc = "waypointRouting"
    /\ isCalculatingRoute
    /\ DirectionsDisabled
    /\ currentRoute # Null
    /\ Len(allRoutes) > 0

-----------------------------------------------------------------------------
\* Failures (SpecLive)

\* C16: every started handleGetDirections run - whether geocoding fails, the
\* routing key is missing, no route is found or scoring throws - eventually
\* sets isCalculatingRoute back to false, given that every request is
\* answered or fails in the end; the directions button is never left
\* disabled for good.
C16_ButtonReenabled ==
    /\ isCalculatingRoute ~> ~isCalculatingRoute
    /\ InFlight ~> (~InFlight /\ ~isCalculatingRoute /\ ~DirectionsDisabled)

\* A run has ended on the alert for scoring that threw: markers placed, the
\* button enabled again
C16_Witness ==
    /\ ~InFlight
    /\ ~isCalculatingRoute
    /\ orsApiKey
    /\ markers # Null
    /\ alerts = <<errorMessage(TypeError)>>

-----------------------------------------------------------------------------
\* Failures of directions requests and suggestion searches (SpecFailures)

\* Nothing of the route on display changes
RouteUnchanged ==
    UNCHANGED <<allRoutes, currentRoute, routeLayer, effect>>

\* The run ends in this step with exactly one alert, of the given message
EndsWithAlert(message) ==
    /\ pc' = "idle"
    /\ alerts' = <<message>>
    /\ ~isCalculatingRoute'

\* C17: every failure ends locally in a silent empty result or in one alert.
\* A failed or empty geocode of either address ends the run with the alert
\* for addresses not found, without a routing request and without a change of
\* the markers or the route; a missing routing key, an empty candidate list
\* (no route found, or every request failed on the network) and a throwing
\* score end it with exactly one alert of calculateRoute; a failed suggestion
\* search leaves its field's list empty and hidden and shows no alert; and
\* every step of a run either goes on to its next await or ends the run with
\* at most one alert and the button enabled: nothing escapes.
C17_FailuresHandledLocally ==
    /\ [](Len(alerts) <= 1 /\ (alerts # <<>> => ~InFlight))
    /\ [][ /\ (pc = "geocodeEnd" /\ pc' # pc /\ (start = Null \/ GeocodeEnd(Null)))
                 => /\ EndsWithAlert(CouldNotFind)
                    /\ markers' = markers
                    /\ RouteUnchanged
           /\ (pc = "geocodeEnd" /\ start # Null /\ ~GeocodeEnd(Null) /\ ~orsApiKey
                 /\ pc' # pc)
                 => /\ EndsWithAlert(errorMessage(KeyNotAvailable))
                    /\ RouteUnchanged
           /\ (pc = "routing" /\ RoutingSettled(Null, Null, Null)
                 /\ pc' = "idle")
                 => /\ EndsWithAlert(errorMessage(NoRoutesFound))
                    /\ RouteUnchanged
           /\ (pc = "waypointRouting" /\ routes = <<>> /\ WaypointRouted(Null))
                 => /\ EndsWithAlert(errorMessage(NoRoutesFound))
                    /\ RouteUnchanged
           /\ (pc \in {"routing", "waypointRouting"} /\ pc' = "idle")
                 => \/ alerts' = <<>> /\ effect' = "allRoutes" /\ ~isCalculatingRoute'
                    \/ EndsWithAlert(errorMessage(NoRoutesFound)) /\ RouteUnchanged
                    \/ EndsWithAlert(errorMessage(TypeError)) /\ RouteUnchanged
           /\ (InFlight /\ pc' # pc)
                 => \/ pc' \in {"geocodeEnd", "routing", "waypointRouting"}
                          /\ alerts' = <<>> /\ isCalculatingRoute'
                    \/ pc' = "idle" /\ ~isCalculatingRoute' /\ Len(alerts') <= 1
           /\ \A i \in 1..Len(searches) :
                 SuggestionsAnswered(i, SearchFailed)
                 => /\ suggestions'[searches[i].type] = <<>>
                    /\ ~showSuggestions'[searches[i].type]
                    /\ alerts' = alerts
                    /\ UNCHANGED appVars ]_vars

\* A directions request has ended on the alert for addresses not found, with
\* no markers placed, and the end field's suggestions went from shown to
\* empty and hidden
C17_Witness ==
    /\ ~InFlight
    /\ alerts = <<CouldNotFind>>
    /\ markers = Null
    /\ currentRoute = Null
    /\ suggestions.start # <<>>
    /\ showSuggestions.start
    /\ suggestions.end = <<>>
    /\ ~showSuggestions.end
    /\ searches = <<>>

-----------------------------------------------------------------------------
\* The stored candidates (Spec)

\* No calculation is in flight and no effect is scheduled
Quiescent == ~InFlight /\ effect = "none"

\* The score of a stored candidate at the time the slider shows after the step
ScoreThen(route) ==
    sampleShadowAlongRoute(route.geometry, minutesOfDay', shadeMap').score

\* C18: after a change of the time of day with a non-empty candidate list the
\* stored shade scores and the selected route are those of the new time of
\* day, without a new directions request: once the slider has moved, with no
\* calculation in flight, and the state is quiescent again, each stored score
\* and percentage is the score at the new time, and the displayed route
\* carries that score.
C18_RescoredAfterTimeChange ==
    [][ (Quiescent /\ Len(allRoutes) > 0 /\ minutesOfDay' # minutesOfDay
            /\ Quiescent')
        => /\ \A i \in 1..Len(allRoutes') :
                 /\ allRoutes'[i].shadeScore = ScoreThen(allRoutes'[i])
                 /\ allRoutes'[i].shadePercentage
                        = RoundPercent(ScoreThen(allRoutes'[i]))
           /\ currentRoute' # Null
                 => currentRoute'.shadeScore = ScoreThen(currentRoute') ]_vars

\* calculateRoute returns in this step
CalculationEnds == pc \in {"routing", "waypointRouting"} /\ pc' = "idle"

\* C19: once a new route calculation has finished, with candidates or with an
\* error, neither the candidate list nor the displayed route holds a
\* candidate of an earlier calculation: a calculation that ends with an error
\* leaves no candidates and no displayed route behind, and one that ends with
\* candidates displays one of its own.
C19_DiscardedOnNewCalculation ==
    [][ CalculationEnds =>
          IF alerts' # <<>>
          THEN /\ allRoutes' = <<>>
               /\ currentRoute' = Null
               /\ routeLayer' = Null
          ELSE /\ Len(allRoutes') > 0
               /\ \E i \in 1..Len(allRoutes') : currentRoute' = allRoutes'[i] ]_vars

\* What the page shows of a route: the summary and the line on the map
Displayed == currentRoute # Null

\* C20: in every state with no effect and no calculation pending in which a
\* route is displayed, the displayed route is a member of the candidate list,
\* it is the selection rule applied to the current mode and that list, and
\* the summary and the geometry on the map are those of that candidate.
C20_DisplayedIsSelected ==
    (Quiescent /\ Displayed) =>
        /\ Len(allRoutes) > 0
        /\ \E i \in 1..Len(allRoutes) : currentRoute = allRoutes[i]
        /\ currentRoute = SelectRoute(routeType, allRoutes)
        /\ RouteSummary(currentRoute)
              = RouteSummary(SelectRoute(routeType, allRoutes))
        /\ routeLayer = SelectRoute(routeType, allRoutes).geometry

\* Witness: the mode has been toggled to fastest and the effect has run, on a
\* list whose shadiest choice is another candidate than its first.
C20_Witness ==
    /\ Quiescent
    /\ Displayed
    /\ routeType = "fastest"
    /\ Len(allRoutes) >= 2
    /\ currentRoute = allRoutes[1]
    /\ routeLayer = allRoutes[1].geometry
    /\ SelectRoute("shadiest", allRoutes) # allRoutes[1]

-----------------------------------------------------------------------------
\* Claims about the backend

beConfig == beRequest # Null /\ beRequest.path = "/api/config"

HasKey(body, key) == key \in DOMAIN body

\* C21: GET /api/config answers 500 with an error body whenever
\* SHADEMAP_API_KEY or ORS_API_KEY is unset or empty, and otherwise with a
\* body holding both keys; never a body with only one key, never a key
\* together with a 500.
C21_ConfigBothKeysOr500 ==
    beConfig =>
        LET body == beResponse.body
            missing == \/ env.SHADEMAP_API_KEY \in {Unset, Value("")}
                       \/ env.ORS_API_KEY \in {Unset, Value("")}
        IN  /\ missing =>
                  /\ beResponse.status = 500
                  /\ DOMAIN body = {"error"}
            /\ ~missing =>
                  /\ beResponse.status = 200
                  /\ DOMAIN body = {"shadeMapApiKey", "openRouteServiceApiKey"}
                  /\ body.shadeMapApiKey = env.SHADEMAP_API_KEY.value
                  /\ body.openRouteServiceApiKey = env.ORS_API_KEY.value
            /\ HasKey(body, "shadeMapApiKey") <=> HasKey(body, "openRouteServiceApiKey")
            /\ beResponse.status = 500 => ~HasKey(body, "shadeMapApiKey")

\* Witness: one key is set and the other is the empty string, and the answer
\* is the 500
C21_Witness ==
    /\ beConfig
    /\ env.SHADEMAP_API_KEY = Value("key")
    /\ env.ORS_API_KEY = Value("")
    /\ beResponse.status = 500

beGeocode ==
    /\ beRequest # Null
    /\ beRequest.path = "/api/geocode"
    /\ bePc = "idle"

\* The upstream search of the handled request succeeded: a response with an
\* ok status and a body that parses
UpstreamSucceeded ==
    /\ "upstream" \in DOMAIN beRequest
    /\ ~beRequest.upstream.rejected
    /\ beRequest.upstream.status \in 200..299
    /\ beRequest.upstream.parses

\* C22: GET /api/geocode either passes through the upstream JSON or answers
\* 500: every failed request (missing query parameter, unset key, upstream
\* network error, upstream error status, unparsable upstream body) gets a
\* 500, and a success response is only sent for a successful upstream search.
C22_GeocodePassThroughOr500 ==
    beGeocode =>
        IF UpstreamSucceeded
        THEN beResponse = Response(200, beRequest.upstream.data)
        ELSE beResponse.status = 500

-----------------------------------------------------------------------------
\* Claims about the address fields (SpecSuggest)

\* The search of a field's value has been issued
Issued(type, value) == issued[type] = CalledWith(value)

\* C23: the address search is debounced: a search for a field is issued only
\* by the timer, 300 ms after the last keystroke, and for the value that
\* keystroke typed; and the last value typed into each field gets its search
\* issued in the end, whatever is typed into the other field meanwhile.
C23_DebouncedEachField ==
    /\ [][ issued' # issued
             => /\ searchTimeout # Null
                /\ searchTimeout.value = address[searchTimeout.type]
                /\ issued' = [issued EXCEPT ![searchTimeout.type] =
                                               CalledWith(searchTimeout.value)] ]_vars
    /\ \A type \in FieldTypes : \A value \in SuggestTexts :
          (address[type] = value)
              ~> (Issued(type, value) \/ address[type] # value)

\* No search of the field is in flight
Settled(type) == \A i \in 1..Len(searches) : searches[i].type # type

\* What the search of a query can leave in its field: nothing and hidden for a
\* query of fewer than 3 characters, otherwise an empty list or matches of
\* that query
ResultOf(type, query) ==
    IF Len(Trim(query)) < MinQueryLength
    THEN suggestions[type] = <<>> /\ ~showSuggestions[type]
    ELSE \A i \in 1..Len(suggestions[type]) :
            suggestions[type][i].display_name = query

\* C24: the suggestion list of a field corresponds to the most recently
\* issued search of that field: once the searches of a field have all been
\* answered, its list is the result of the last one issued (the clear for a
\* query shorter than 3 characters included), whatever the order in which the
\* answers arrived.
C24_SuggestionsOfLatestSearch ==
    \A type \in FieldTypes :
        (issued[type].called /\ Settled(type))
            => ResultOf(type, issued[type].query)

-----------------------------------------------------------------------------
\* The candidate list and the order of arrival (SpecCandidates)

\* The request an alternative comes from
RequestOf(route) == CHOOSE i \in 1..3 : <<"1", "2", "3">>[i] = route.variant

\* The list that the contents of the three responses give, taken request by
\* request
ListInRequestOrder ==
    PushShadeOptimized(BuildRoutes(cdFeature(1), cdFeature(2), cdFeature(3)),
                       cdShadeRoute)

\* C25: the candidate list of one run is determined by the contents of the
\* three responses and not by the order in which they arrive: for every
\* arrival order the list holds the same candidates in request order, with
\* the same duplicates dropped, routeIndex is the position in the list
\* (counted from 1), and the shade-optimized route, if any, is last.
C25_ListIndependentOfArrival ==
    cdDone =>
        LET alts == Alternatives(cdRoutes)
        IN  /\ cdRoutes = ListInRequestOrder
            /\ \A i, j \in 1..Len(alts) :
                  i < j => RequestOf(alts[i]) < RequestOf(alts[j])
            /\ \A k \in 1..Len(alts) :
                  /\ alts[k].distance = cdFeature(RequestOf(alts[k])).distance
                  /\ alts[k].geometry = cdFeature(RequestOf(alts[k])).geometry
            /\ \A k \in 1..Len(cdRoutes) :
                  cdRoutes[k].variant = "shade-optimized" => k = Len(cdRoutes)
            /\ Len(cdScored) = Len(cdRoutes)
            /\ \A k \in 1..Len(cdScored) :
                  /\ cdScored[k].routeIndex = k
                  /\ cdScored[k].variant = cdRoutes[k].variant
                  /\ cdScored[k].distance = cdRoutes[k].distance

\* Witness: the third request settles first and the first one last; the
\* second answer is dropped as a duplicate of the first, and the list is first,
\* third, shade-optimized
C25_Witness ==
    /\ cdDone
    /\ arrival = <<3, 2, 1>>
    /\ cdFeature(1) # Null /\ cdFeature(1).distance = 1000
    /\ cdFeature(2) # Null /\ cdFeature(2).distance = 1049
    /\ cdFeature(3) # Null /\ cdFeature(3).distance = 1600
    /\ Len(cdScored) = 3
    /\ cdScored[1].variant = "1" /\ cdScored[1].routeIndex = 1
    /\ cdScored[2].variant = "3" /\ cdScored[2].routeIndex = 2
    /\ cdScored[3].variant = "shade-optimized" /\ cdScored[3].routeIndex = 3

-----------------------------------------------------------------------------
\* Markers and route (Spec)

\* C27: whenever a route and the start and end markers are displayed
\* together, the route was calculated for exactly the endpoints the markers
\* show; here for the states in which no calculation and no effect is
\* pending, where the map never shows the markers of a newer request with the
\* route of an older one.
C27_RouteOfTheMarkers ==
    (Quiescent /\ markers # Null /\ currentRoute # Null)
        => routedFor = markers

-----------------------------------------------------------------------------
\* The two modes on one list (SpecSelect)

slDone == slSelected # Null

\* Positions of the candidates within 150% of the first one's distance
slValid == { i \in 1..Len(slInput) : WithinMaxDistance(slInput[i], slInput) }

\* C26: on every scored list with non-negative distances the route selected
\* as shadiest has a shade score at least that of the route selected as
\* fastest, which is the first; it has the highest score of the candidates
\* within the distance bound and is the earliest of those that have it; and
\* the selection leaves the stored list as it was.
C26_ShadiestAtLeastFastest ==
    slDone =>
        /\ SelectRoute("shadiest", slInput).shadeScore
              >= SelectRoute("fastest", slInput).shadeScore
        /\ slMode = "fastest" => slSelected = slInput[1]
        /\ slMode = "shadiest" =>
              /\ slSelected.shadeScore >= slInput[1].shadeScore
              /\ slSelected.routeIndex \in slValid
              /\ slSelected = slInput[slSelected.routeIndex]
              /\ \A i \in slValid :
                    /\ slInput[i].shadeScore <= slSelected.shadeScore
                    /\ slInput[i].shadeScore = slSelected.shadeScore
                          => slSelected.routeIndex <= i
        /\ slRoutes = slInput

\* Witness: the second and the third candidate tie on the highest score, above
\* the first; both are within the bound, and the second is selected
C26_Witness ==
    /\ slDone
    /\ slMode = "shadiest"
    /\ Len(slInput) = 3
    /\ slInput[1].shadeScore = 2500
    /\ slInput[2].shadeScore = 9500
    /\ slInput[3].shadeScore = 9500
    /\ slValid = {1, 2, 3}
    /\ slSelected.routeIndex = 2
    /\ slRoutes = slInput

====
